---- MODULE Spec2Model ----
(***************************************************************************)
(* Bank Lending System (app.js): Express handlers over a SQLite store.     *)
(*                                                                         *)
(* Numbers.  A JavaScript number is modelled as an exact fraction          *)
(* [n |-> numerator, d |-> denominator] in lowest terms with d > 0.  The   *)
(* non-finite doubles are the fractions with d = 0: NaN is 0/0 and         *)
(* +Infinity is 1/0, so that x / 0 and NaN propagation come out of the     *)
(* ordinary fraction formulas.  Two-decimal figures are the doubles        *)
(* nearest to them, and round2's Number.EPSILON nudge exists only to undo  *)
(* their representation error, so sums, differences and round2 are exact   *)
(* here.  The one place where the error of a double reaches a reply is     *)
(* Math.ceil(balance / monthly_emi): the quotient of two such doubles can  *)
(* lie just above an integer (8.4 / 0.7 is 12.000000000000002), and        *)
(* QuotientAboveInteger lists the operand pairs of the request bodies      *)
(* below for which it does.                                                *)
(*                                                                         *)
(* Store.  The three tables are sequences of rows in rowid order.  uuid()  *)
(* is modelled by the row number, datetime('now') by the clock `now`.      *)
(***************************************************************************)
EXTENDS Integers, Sequences, FiniteSets, TLC

VARIABLES customers, loans, payments, now, reply, frames

vars == <<customers, loans, payments, now, reply, frames>>

db == <<customers, loans, payments>>

(***************************************************************************)
(* Bounds of the model.                                                    *)
(***************************************************************************)
MaxLoans == 2

MaxPayments == 2

MaxClock == 1

(***************************************************************************)
(* JavaScript number arithmetic.                                           *)
(***************************************************************************)
Abs(a) == IF a < 0 THEN -a ELSE a

Sign(a) == IF a < 0 THEN -1 ELSE IF a > 0 THEN 1 ELSE 0

RECURSIVE GCD(_, _)
GCD(a, b) == IF b = 0 THEN a ELSE GCD(b, a % b)

Num(n, d) ==
    IF d = 0 THEN [n |-> Sign(n), d |-> 0]
    ELSE LET g == GCD(Abs(n), Abs(d))
         IN  [n |-> (Sign(d) * n) \div g, d |-> Abs(d) \div g]

NaN == [n |-> 0, d |-> 0]

Infinity == [n |-> 1, d |-> 0]

Zero == Num(0, 1)

IsNaN(x) == x.d = 0 /\ x.n = 0

IsFinite(x) == x.d # 0

\* x + y
Add(x, y) ==
    IF x.d = 0 \/ y.d = 0
    THEN Num(x.n * y.d + y.n * x.d, 0)
    ELSE LET g == GCD(x.d, y.d)
         IN  Num(x.n * (y.d \div g) + y.n * (x.d \div g), (x.d \div g) * y.d)

Neg(x) == [n |-> -x.n, d |-> x.d]

\* x - y
Sub(x, y) == Add(x, Neg(y))

\* x * y
Mul(x, y) ==
    IF x.d = 0 \/ y.d = 0
    THEN Num(Sign(x.n) * Sign(y.n), 0)
    ELSE LET a == Num(x.n, y.d)
             b == Num(y.n, x.d)
         IN  Num(a.n * b.n, a.d * b.d)

\* x / y
Div(x, y) == Mul(x, IF y.n < 0 THEN [n |-> -y.d, d |-> -y.n] ELSE [n |-> y.d, d |-> y.n])

\* x <= y, false when either side is NaN
Le(x, y) ==
    IF IsNaN(x) \/ IsNaN(y) THEN FALSE
    ELSE IF x.d # 0 /\ y.d # 0
         THEN LET g == GCD(x.d, y.d)
              IN  x.n * (y.d \div g) <= y.n * (x.d \div g)
         ELSE IF x.d = 0 /\ y.d = 0 THEN x.n <= y.n
         ELSE IF x.d = 0 THEN x.n < 0
         ELSE y.n > 0

\* x < y, false when either side is NaN
Lt(x, y) == Le(x, y) /\ x # y

\* Math.max(x, y)
MathMax(x, y) == IF IsNaN(x) \/ IsNaN(y) THEN NaN ELSE IF Le(x, y) THEN y ELSE x

\* Math.round(x): the nearest integer, halves towards +Infinity
MathRound(x) == IF x.d = 0 THEN x ELSE Num((2 * x.n + x.d) \div (2 * x.d), 1)

\* Math.ceil(x)
MathCeil(x) == IF x.d = 0 THEN x ELSE Num(-((-x.n) \div x.d), 1)

\* const round2 = (n) => Math.round((n + Number.EPSILON) * 100) / 100
round2(x) == Div(MathRound(Mul(x, Num(100, 1))), Num(100, 1))

\* a decimal literal given in cents
Cents(c) == Num(c, 100)

(***************************************************************************)
(* JavaScript values of a request body: a JSON number, a non-numeric       *)
(* string such as "abc" (Number("abc") is NaN) or null / a missing field.  *)
(***************************************************************************)
JsNumber(x) == [t |-> "number", v |-> x]

JsString == [t |-> "string", v |-> NaN]

JsNull == [t |-> "null", v |-> Zero]

\* Number(j)
Number(j) == j.v

\* j == null
IsNullish(j) == j.t = "null"

\* !j : null, 0 and NaN are falsy, a non-empty string is truthy
Falsy(j) == j.t = "null" \/ (j.t = "number" /\ (j.v = Zero \/ IsNaN(j.v)))

\* j <= 0 : the relational operator converts its operand to a number
JsLe0(j) == Le(Number(j), Zero)

(***************************************************************************)
(* Inputs of the requests.  Each specification draws its request bodies    *)
(* from a set of its own.                                                  *)
(***************************************************************************)
Body(c, P, N, R) ==
    [customer_id |-> c, loan_amount |-> P, loan_period_years |-> N,
     interest_rate_yearly |-> R]

Pay(amount, type) == [amount |-> amount, payment_type |-> type]

\* the worked example, a loan whose installment rounds to 0.00, a refused body
CoreBodies ==
    { Body("c1", JsNumber(Num(100000, 1)), JsNumber(Num(1, 1)), JsNumber(Num(10, 1))),
      Body("c1", JsNumber(Cents(5)), JsNumber(Num(1, 1)), JsNumber(Num(10, 1))),
      Body("c1", JsNumber(Num(-1, 1)), JsNumber(Num(1, 1)), JsNumber(Num(10, 1))) }

\* the payments of the worked example, a sub-cent amount, two refused bodies
CorePayments ==
    { Pay(JsNumber(Cents(916667)), "EMI"),
      Pay(JsNumber(Cents(10083333)), "LUMP_SUM"),
      Pay(JsNumber(Num(4, 1000)), "EMI"),
      Pay(JsNumber(Zero), "EMI"),
      Pay(JsNumber(Cents(916667)), "BONUS") }

\* accepted and refused bodies of every kind
LoanBodies ==
    CoreBodies \cup
    { Body("c2", JsNumber(Num(4, 1000)), JsNumber(Num(1, 1)), JsNumber(Zero)),
      Body("c2", JsNumber(Num(1, 1)), JsNumber(Num(3, 2)), JsNumber(Num(10, 1))),
      Body("c1", JsString, JsNumber(Num(1, 1)), JsNumber(Num(10, 1))),
      Body("c1", JsNumber(Num(1, 1)), JsNumber(Zero), JsNumber(Num(10, 1))),
      Body("c1", JsNumber(Num(1, 1)), JsNumber(Num(1, 1)), JsNumber(Num(-1, 1))),
      Body("c1", JsNull, JsNumber(Num(1, 1)), JsNumber(Num(10, 1))),
      Body("", JsNumber(Num(1, 1)), JsNumber(Num(1, 1)), JsNumber(Num(10, 1))) }

\* more terms for origination: several years, a fractional rate, no interest
OriginationBodies ==
    LoanBodies \cup
    { Body("c2", JsNumber(Num(1200, 1)), JsNumber(Num(2, 1)), JsNumber(Num(5, 1))),
      Body("c2", JsNumber(Cents(25050)), JsNumber(Num(3, 1)), JsNumber(Num(15, 2))),
      Body("c2", JsNumber(Num(100, 1)), JsNumber(Num(1, 1)), JsNumber(Zero)) }

\* a loan for the ledger, and a refused body
LedgerBodies ==
    { Body("c1", JsNumber(Num(100, 1)), JsNumber(Num(1, 1)), JsNumber(Zero)),
      Body("c1", JsNumber(Num(1, 1)), JsNumber(Zero), JsNumber(Num(10, 1))) }

\* its installment, its settling payment, a refused body
LedgerPayments ==
    { Pay(JsNumber(Cents(833)), "EMI"),
      Pay(JsNumber(Num(100, 1)), "LUMP_SUM"),
      Pay(JsNumber(Zero), "EMI") }

\* loans of two customers for the read handlers
ReadBodies ==
    LedgerBodies \cup
    { Body("c2", JsNumber(Cents(5)), JsNumber(Num(1, 1)), JsNumber(Num(10, 1))) }

\* a payment that settles either loan
ReadPayments == { Pay(JsNumber(Num(100, 1)), "LUMP_SUM") }

\* the worked example for the payment types
TypeBodies ==
    { Body("c1", JsNumber(Num(100000, 1)), JsNumber(Num(1, 1)), JsNumber(Num(10, 1))) }

\* its installment and its closing balance, each under either type, and a refused type
TypePayments ==
    { Pay(JsNumber(Cents(916667)), "EMI"), Pay(JsNumber(Cents(916667)), "LUMP_SUM"),
      Pay(JsNumber(Cents(10083333)), "EMI"), Pay(JsNumber(Cents(10083333)), "LUMP_SUM"),
      Pay(JsNumber(Cents(916667)), "BONUS") }

\* a loan of twelve installments of 0.70, and the worked example
InstallmentBodies ==
    { Body("c1", JsNumber(Cents(840)), JsNumber(Num(1, 1)), JsNumber(Zero)),
      Body("c1", JsNumber(Num(100000, 1)), JsNumber(Num(1, 1)), JsNumber(Num(10, 1))) }

\* the installments of the two loans and the closing payment of the example
InstallmentPayments ==
    { Pay(JsNumber(Cents(70)), "EMI"),
      Pay(JsNumber(Cents(916667)), "EMI"),
      Pay(JsNumber(Cents(10083333)), "LUMP_SUM") }

PaymentAmounts ==
    { JsNumber(Cents(916667)), JsNumber(Cents(10083332)), JsNumber(Cents(10083333)),
      JsNumber(Num(4, 1000)), JsNumber(Zero), JsNumber(Cents(-1)), JsString }

PaymentTypes == {"EMI", "LUMP_SUM", "BONUS", ""}

WidePayments == {Pay(amount, type) : amount \in PaymentAmounts, type \in PaymentTypes}

Customers == {"c1", "c2"}

LoanIds == 1 .. MaxLoans

(***************************************************************************)
(* The server.  Node runs each handler on one thread, and every call a     *)
(* handler makes (better-sqlite3's get, run, all) is synchronous: a        *)
(* handler that has started runs to its reply before the next one starts.  *)
(* frames holds the payment submissions received: queued, or at a step of  *)
(* the handler.                                                            *)
(***************************************************************************)
NoReply == [op |-> "none", error |-> "OK"]

IdleFrame == [pc |-> "idle"]

\* two clients submit payments concurrently
Slots == {1, 2}

\* no handler is between its first statement and its reply
StackFree == \A t \in Slots : frames[t].pc \in {"idle", "queued"}

\* a server whose handlers yield between statements
MutCanRun(s) == TRUE

\* the handler of submission s may take its next step
CanRun(s) == \A t \in Slots \ {s} : frames[t].pc \in {"idle", "queued"}

(***************************************************************************)
(* Helpers of app.js.                                                      *)
(***************************************************************************)
\* computeSI without the division of the rate by 100
MutComputeSI(P, N, Rpct) ==
    LET I == Mul(Mul(P, N), Rpct)
        A == Add(P, I)
    IN  [I |-> I, A |-> A]

\* function computeSI({ P, N, Rpct })
computeSI(P, N, Rpct) ==
    LET I == Mul(Mul(P, N), Div(Rpct, Num(100, 1)))
        A == Add(P, I)
    IN  [I |-> I, A |-> A]

\* SELECT * FROM loans WHERE loan_id = ? finds a row
LoanExists(lns, loanId) == loanId \in 1 .. Len(lns)

\* function getLoanOr404(loanId), for a loan that exists
getLoanOr404(lns, loanId) == lns[loanId]

\* a fold that counts the installments only
MutPaymentsOf(pays, loanId) ==
    SelectSeq(pays, LAMBDA p : p.loan_id = loanId /\ p.payment_type = "EMI")

\* the rows of one loan in the payments table, in rowid order
PaymentsOf(pays, loanId) == SelectSeq(pays, LAMBDA p : p.loan_id = loanId)

RECURSIVE SumSeq(_)
SumSeq(rows) ==
    IF rows = <<>> THEN Zero ELSE Add(SumSeq(SubSeq(rows, 1, Len(rows) - 1)), rows[Len(rows)].amount)

\* SELECT COALESCE(SUM(amount),0) AS paid FROM payments WHERE loan_id = ?
SumPaid(pays, loanId) == SumSeq(PaymentsOf(pays, loanId))

\* pairs (x, y) with x / y > k as doubles although x = k * y as decimals:
\* 8.4 / 0.7, 7.7 / 0.7, 4.9 / 0.7, 4.2 / 0.7 and 2.1 / 0.7 are
\* 12.000000000000002, 11.000000000000002, 7.000000000000001, 6.000000000000001
\* and 3.0000000000000004
QuotientAboveInteger ==
    { <<Cents(840), Cents(70)>>, <<Cents(770), Cents(70)>>, <<Cents(490), Cents(70)>>,
      <<Cents(420), Cents(70)>>, <<Cents(210), Cents(70)>> }

\* Math.ceil(x / y) on doubles
CeilOfQuotient(x, y) ==
    IF <<x, y>> \in QuotientAboveInteger
    THEN Add(MathCeil(Div(x, y)), Num(1, 1))
    ELSE MathCeil(Div(x, y))

\* balance <= 0 ? 0 : Math.ceil(balance / monthly_emi)
EmisLeft(balance, monthly_emi) ==
    IF Le(balance, Zero) THEN Zero ELSE CeilOfQuotient(balance, monthly_emi)

\* the balance without the clamp at zero
MutBalance(total_amount, paid) == round2(Sub(total_amount, paid))

\* Math.max(0, round2(total_amount - paid))
Balance(total_amount, paid) == MathMax(Zero, round2(Sub(total_amount, paid)))

\* function totalsForLoan(loanId)
totalsForLoan(lns, pays, loanId) ==
    LET paid == SumPaid(pays, loanId)
        loan == getLoanOr404(lns, loanId)
        balance == Balance(loan.total_amount, paid)
        emisLeft == EmisLeft(balance, loan.monthly_emi)
    IN  [loan |-> loan, paid |-> round2(paid), balance |-> balance, emisLeft |-> emisLeft]

\* upsertCustomer without its SELECT: a record for every call
MutUpsertCustomer(custs, customer_id, t) ==
    Append(custs, [customer_id |-> customer_id, name |-> "null", created_at |-> t])

\* function upsertCustomer(customer_id)
upsertCustomer(custs, customer_id, t) ==
    IF \E i \in 1 .. Len(custs) : custs[i].customer_id = customer_id
    THEN custs
    ELSE Append(custs, [customer_id |-> customer_id, name |-> "null", created_at |-> t])

\* a NOT NULL column refuses NaN, which SQLite binds as NULL
NotNull(x) == ~IsNaN(x)

(***************************************************************************)
(* POST /api/v1/loans                                                      *)
(***************************************************************************)
\* a new loan row born settled
MutNewLoanStatus == "PAID_OFF"

\* the status a new loan row is given
NewLoanStatus == "ACTIVE"

\* if (!customer_id || loan_amount == null || ...) return 400
MissingField(b) ==
    \/ b.customer_id = ""
    \/ IsNullish(b.loan_amount)
    \/ IsNullish(b.loan_period_years)
    \/ IsNullish(b.interest_rate_yearly)

\* if (loan_amount <= 0 || loan_period_years <= 0 || interest_rate_yearly < 0) return 400
InvalidNumeric(b) ==
    \/ JsLe0(b.loan_amount)
    \/ JsLe0(b.loan_period_years)
    \/ Lt(Number(b.interest_rate_yearly), Zero)

\* the row the handler inserts into loans
NewLoanRow(b, loan_id, t) ==
    LET P == Number(b.loan_amount)
        N == Number(b.loan_period_years)
        R == Number(b.interest_rate_yearly)
        si == computeSI(P, N, R)
        totalMonths == Mul(N, Num(12, 1))
        emi == round2(Div(si.A, totalMonths))
    IN  [loan_id |-> loan_id, customer_id |-> b.customer_id, principal_amount |-> P,
         interest_rate |-> R, loan_period_years |-> N, total_amount |-> round2(si.A),
         monthly_emi |-> emi, status |-> NewLoanStatus, created_at |-> t]

\* the INSERT INTO loans passes the NOT NULL constraints of the schema
LoanRowAccepted(row) ==
    /\ NotNull(row.principal_amount)
    /\ NotNull(row.interest_rate)
    /\ NotNull(row.loan_period_years)
    /\ NotNull(row.total_amount)
    /\ NotNull(row.monthly_emi)

\* res.status(201).json({...})
CreateLoanReply(b, row) ==
    LET si == computeSI(row.principal_amount, row.loan_period_years, row.interest_rate)
    IN  [op |-> "createLoan", error |-> "OK", loan_id |-> row.loan_id,
         customer_id |-> row.customer_id, principal |-> round2(row.principal_amount),
         total_interest |-> round2(si.I), total_amount_payable |-> round2(si.A),
         monthly_emi |-> row.monthly_emi]

ErrorReply(op, error) == [op |-> op, error |-> error]

CreateLoan(b) ==
    /\ StackFree
    /\ Len(loans) < MaxLoans
    /\ UNCHANGED <<payments, now, frames>>
    /\ IF MissingField(b) \/ InvalidNumeric(b)
       THEN /\ reply' = ErrorReply("createLoan", "InvalidTerms")
            /\ UNCHANGED <<customers, loans>>
       ELSE LET row == NewLoanRow(b, Len(loans) + 1, now)
            IN  /\ customers' = upsertCustomer(customers, b.customer_id, now)
                /\ IF LoanRowAccepted(row)
                   THEN /\ loans' = Append(loans, row)
                        /\ reply' = CreateLoanReply(b, row)
                   ELSE /\ loans' = loans
                        /\ reply' = ErrorReply("createLoan", "InternalError")

(***************************************************************************)
(* POST /api/v1/loans/:loanId/payments                                     *)
(***************************************************************************)
\* if (!amount || amount <= 0) return 400
InvalidAmount(amount) == Falsy(amount) \/ JsLe0(amount)

\* if (!payment_type || !["EMI", "LUMP_SUM"].includes(payment_type)) return 400
InvalidPaymentType(type) == type = "" \/ type \notin {"EMI", "LUMP_SUM"}

\* the handler without its 409 check
MutLoanAlreadySettled(loan) == FALSE

\* if (loan.status === "PAID_OFF") return 409
LoanAlreadySettled(loan) == loan.status = "PAID_OFF"

\* the checks of the handler in the order of the code, on the loan row it read
PaymentCheck(amount, type, loan) ==
    IF InvalidAmount(amount) THEN "InvalidAmount"
    ELSE IF InvalidPaymentType(type) THEN "InvalidPaymentType"
    ELSE IF LoanAlreadySettled(loan) THEN "LoanAlreadySettled"
    ELSE "OK"

\* the amount the handler stores: round2(Number(amount))
StoredAmount(amount) == round2(Number(amount))

\* the row the handler inserts into payments
NewPaymentRow(payment_id, loanId, amount, type, t) ==
    [payment_id |-> payment_id, loan_id |-> loanId, amount |-> StoredAmount(amount),
     payment_type |-> type, payment_date |-> t]

\* the INSERT INTO payments passes the NOT NULL and CHECK constraints
PaymentRowAccepted(row) ==
    /\ NotNull(row.amount)
    /\ row.payment_type \in {"EMI", "LUMP_SUM"}

\* if (balance <= 0 && loan.status !== "PAID_OFF")
ShouldMarkPaidOff(balance, loan) == Le(balance, Zero) /\ loan.status # "PAID_OFF"

\* the UPDATE without its WHERE clause
MutMarkPaidOff(lns, loanId) == [i \in 1 .. Len(lns) |-> [lns[i] EXCEPT !.status = "PAID_OFF"]]

\* UPDATE loans SET status='PAID_OFF' WHERE loan_id = ?
MarkPaidOff(lns, loanId) == [lns EXCEPT ![loanId].status = "PAID_OFF"]

\* the loans table after the handler's recomputation, loan being the row it read
SettleLoans(lns, pays, loanId, loan) ==
    IF ShouldMarkPaidOff(totalsForLoan(lns, pays, loanId).balance, loan)
    THEN MarkPaidOff(lns, loanId)
    ELSE lns

\* res.json({ payment_id, loan_id, message, remaining_balance, emis_left })
PaymentReply(payment_id, loanId, totals) ==
    [op |-> "recordPayment", error |-> "OK", payment_id |-> payment_id, loan_id |-> loanId,
     remaining_balance |-> totals.balance, emis_left |-> totals.emisLeft]

RecordPayment(loanId, amount, type) ==
    /\ StackFree
    /\ Len(payments) < MaxPayments
    /\ UNCHANGED <<customers, now, frames>>
    /\ IF ~LoanExists(loans, loanId)
       THEN /\ reply' = ErrorReply("recordPayment", "LoanNotFound")
            /\ UNCHANGED <<loans, payments>>
       ELSE LET loan == getLoanOr404(loans, loanId)
                check == PaymentCheck(amount, type, loan)
                payment_id == Len(payments) + 1
                row == NewPaymentRow(payment_id, loanId, amount, type, now)
                pays == Append(payments, row)
            IN  IF check # "OK"
                THEN /\ reply' = ErrorReply("recordPayment", check)
                     /\ UNCHANGED <<loans, payments>>
                ELSE IF ~PaymentRowAccepted(row)
                THEN /\ reply' = ErrorReply("recordPayment", "InternalError")
                     /\ UNCHANGED <<loans, payments>>
                ELSE /\ payments' = pays
                     /\ loans' = SettleLoans(loans, pays, loanId, loan)
                     /\ reply' = PaymentReply(payment_id, loanId,
                                              totalsForLoan(loans, pays, loanId))

(***************************************************************************)
(* GET /api/v1/loans/:loanId/ledger                                        *)
(***************************************************************************)
\* the ledger query without its rowid tie-break, ties coming out newest first
RECURSIVE MutOrderByDateRowid(_, _)
MutOrderByDateRowid(pays, ids) ==
    IF ids = {} THEN <<>>
    ELSE LET m == CHOOSE i \in ids : \A j \in ids :
                      \/ pays[i].payment_date < pays[j].payment_date
                      \/ pays[i].payment_date = pays[j].payment_date /\ i >= j
         IN  <<m>> \o MutOrderByDateRowid(pays, ids \ {m})

\* rowids of pays in ids, ORDER BY datetime(payment_date) ASC, rowid ASC
RECURSIVE OrderByDateRowid(_, _)
OrderByDateRowid(pays, ids) ==
    IF ids = {} THEN <<>>
    ELSE LET m == CHOOSE i \in ids : \A j \in ids :
                      \/ pays[i].payment_date < pays[j].payment_date
                      \/ pays[i].payment_date = pays[j].payment_date /\ i <= j
         IN  <<m>> \o OrderByDateRowid(pays, ids \ {m})

\* SELECT payment_id as transaction_id, payment_date as date, amount, payment_type as type
Transactions(pays, loanId) ==
    LET ids == {i \in 1 .. Len(pays) : pays[i].loan_id = loanId}
        order == OrderByDateRowid(pays, ids)
    IN  [k \in 1 .. Len(order) |->
            [transaction_id |-> pays[order[k]].payment_id, date |-> pays[order[k]].payment_date,
             amount |-> pays[order[k]].amount, type |-> pays[order[k]].payment_type]]

\* a ledger that stamps its reply with the time of the read
MutLedgerReply(lns, pays, loanId) ==
    LET t == totalsForLoan(lns, pays, loanId)
    IN  [op |-> "getLedger", error |-> "OK", loan_id |-> t.loan.loan_id,
         customer_id |-> t.loan.customer_id, principal |-> round2(t.loan.principal_amount),
         total_amount |-> round2(t.loan.total_amount),
         monthly_emi |-> round2(t.loan.monthly_emi), amount_paid |-> t.paid,
         balance_amount |-> t.balance, emis_left |-> t.emisLeft, status |-> t.loan.status,
         transactions |-> Transactions(pays, loanId), generated_at |-> now]

\* res.json({ loan_id, ..., transactions: txns })
LedgerReply(lns, pays, loanId) ==
    LET t == totalsForLoan(lns, pays, loanId)
    IN  [op |-> "getLedger", error |-> "OK", loan_id |-> t.loan.loan_id,
         customer_id |-> t.loan.customer_id, principal |-> round2(t.loan.principal_amount),
         total_amount |-> round2(t.loan.total_amount),
         monthly_emi |-> round2(t.loan.monthly_emi), amount_paid |-> t.paid,
         balance_amount |-> t.balance, emis_left |-> t.emisLeft, status |-> t.loan.status,
         transactions |-> Transactions(pays, loanId)]

GetLedger(loanId) ==
    /\ StackFree
    /\ UNCHANGED <<customers, loans, payments, now, frames>>
    /\ reply' = IF LoanExists(loans, loanId)
                THEN LedgerReply(loans, payments, loanId)
                ELSE ErrorReply("getLedger", "LoanNotFound")

(***************************************************************************)
(* GET /api/v1/customers/:customerId/overview                              *)
(***************************************************************************)
\* the overview query with its order reversed, oldest loan first
RECURSIVE MutOrderByCreatedDesc(_, _)
MutOrderByCreatedDesc(lns, ids) ==
    IF ids = {} THEN <<>>
    ELSE LET m == CHOOSE i \in ids : \A j \in ids :
                      \/ lns[i].created_at < lns[j].created_at
                      \/ lns[i].created_at = lns[j].created_at /\ i <= j
         IN  <<m>> \o MutOrderByCreatedDesc(lns, ids \ {m})

\* rowids of lns in ids, ORDER BY datetime(created_at) DESC; rows of equal created_at
\* come out in rowid order, the order in which SQLite's scan feeds its sorter
RECURSIVE OrderByCreatedDesc(_, _)
OrderByCreatedDesc(lns, ids) ==
    IF ids = {} THEN <<>>
    ELSE LET m == CHOOSE i \in ids : \A j \in ids :
                      \/ lns[i].created_at > lns[j].created_at
                      \/ lns[i].created_at = lns[j].created_at /\ i <= j
         IN  <<m>> \o OrderByCreatedDesc(lns, ids \ {m})

\* SELECT * FROM loans WHERE customer_id = ? ORDER BY datetime(created_at) DESC
LoansOfCustomer(lns, customerId) ==
    OrderByCreatedDesc(lns, {i \in 1 .. Len(lns) : lns[i].customer_id = customerId})

\* the summary without Math.ceil
MutLoanSummary(ln, pays) ==
    LET paid == SumPaid(pays, ln.loan_id)
        balance == MathMax(Zero, round2(Sub(ln.total_amount, paid)))
        emisLeft == IF Le(balance, Zero) THEN Zero ELSE Div(balance, ln.monthly_emi)
        totalInterest == round2(Sub(ln.total_amount, ln.principal_amount))
    IN  [loan_id |-> ln.loan_id, principal |-> round2(ln.principal_amount),
         total_amount |-> round2(ln.total_amount), total_interest |-> totalInterest,
         emi_amount |-> round2(ln.monthly_emi), amount_paid |-> round2(paid),
         emis_left |-> emisLeft, status |-> ln.status, created_at |-> ln.created_at]

\* the summary loans.map builds for one loan row
LoanSummary(ln, pays) ==
    LET paid == SumPaid(pays, ln.loan_id)
        balance == MathMax(Zero, round2(Sub(ln.total_amount, paid)))
        emisLeft == IF Le(balance, Zero) THEN Zero ELSE CeilOfQuotient(balance, ln.monthly_emi)
        totalInterest == round2(Sub(ln.total_amount, ln.principal_amount))
    IN  [loan_id |-> ln.loan_id, principal |-> round2(ln.principal_amount),
         total_amount |-> round2(ln.total_amount), total_interest |-> totalInterest,
         emi_amount |-> round2(ln.monthly_emi), amount_paid |-> round2(paid),
         emis_left |-> emisLeft, status |-> ln.status, created_at |-> ln.created_at]

\* res.json({ customer_id, total_loans, loans })
OverviewReply(lns, pays, customerId) ==
    LET order == LoansOfCustomer(lns, customerId)
        out == [k \in 1 .. Len(order) |-> LoanSummary(lns[order[k]], pays)]
    IN  [op |-> "getCustomerOverview", error |-> "OK", customer_id |-> customerId,
         total_loans |-> Len(out), loans |-> out]

GetCustomerOverview(customerId) ==
    /\ StackFree
    /\ UNCHANGED <<customers, loans, payments, now, frames>>
    /\ reply' = IF Len(LoansOfCustomer(loans, customerId)) = 0
                THEN ErrorReply("getCustomerOverview", "NoLoansForCustomer")
                ELSE OverviewReply(loans, payments, customerId)

(***************************************************************************)
(* The clock behind datetime('now'), in seconds.                           *)
(***************************************************************************)
Tick ==
    /\ now < MaxClock
    /\ now' = now + 1
    /\ UNCHANGED <<customers, loans, payments, reply, frames>>

(***************************************************************************)
(* The server: handlers run one at a time, each to completion.             *)
(***************************************************************************)
Init ==
    /\ customers = <<>>
    /\ loans = <<>>
    /\ payments = <<>>
    /\ now = 0
    /\ reply = NoReply
    /\ frames = [s \in Slots |-> IdleFrame]

Next ==
    \/ \E b \in CoreBodies : CreateLoan(b)
    \/ \E loanId \in LoanIds, p \in CorePayments :
          RecordPayment(loanId, p.amount, p.payment_type)
    \/ \E loanId \in LoanIds : GetLedger(loanId)
    \/ \E customerId \in Customers : GetCustomerOverview(customerId)

\* the requests of one second: no code path of the accounting reads a timestamp
Spec == Init /\ [][Next]_vars

NextWide ==
    \/ \E b \in LoanBodies : CreateLoan(b)
    \/ \E loanId \in LoanIds, p \in WidePayments :
          RecordPayment(loanId, p.amount, p.payment_type)
    \/ \E loanId \in LoanIds : GetLedger(loanId)
    \/ \E customerId \in Customers : GetCustomerOverview(customerId)

\* the same handlers over the wide request bodies
SpecWide == Init /\ [][NextWide]_vars

NextOrigination == \E b \in OriginationBodies : CreateLoan(b)

\* loan creation alone, over the origination bodies
SpecOrigination == Init /\ [][NextOrigination]_vars

NextClock == Next \/ Tick

\* the core requests with time passing between them
SpecClock == Init /\ [][NextClock]_vars

NextLedger ==
    \/ \E b \in LedgerBodies : CreateLoan(b)
    \/ \E loanId \in LoanIds, p \in LedgerPayments :
          RecordPayment(loanId, p.amount, p.payment_type)
    \/ \E loanId \in LoanIds : GetLedger(loanId)
    \/ Tick

\* the ledger over payments recorded in the same and in different seconds
SpecLedger == Init /\ [][NextLedger]_vars

NextReads ==
    \/ \E b \in ReadBodies : CreateLoan(b)
    \/ \E loanId \in LoanIds, p \in ReadPayments :
          RecordPayment(loanId, p.amount, p.payment_type)
    \/ \E loanId \in LoanIds : GetLedger(loanId)
    \/ \E customerId \in Customers : GetCustomerOverview(customerId)
    \/ Tick

\* the read handlers over loans created in the same and in different seconds
SpecReads == Init /\ [][NextReads]_vars

NextTypes ==
    \/ \E b \in TypeBodies : CreateLoan(b)
    \/ \E loanId \in LoanIds, p \in TypePayments :
          RecordPayment(loanId, p.amount, p.payment_type)
    \/ \E loanId \in LoanIds : GetLedger(loanId)

\* the same amounts recorded under either payment type
SpecTypes == Init /\ [][NextTypes]_vars

NextInstallments ==
    \/ \E b \in InstallmentBodies : CreateLoan(b)
    \/ \E loanId \in LoanIds, p \in InstallmentPayments :
          RecordPayment(loanId, p.amount, p.payment_type)
    \/ \E loanId \in LoanIds : GetLedger(loanId)

\* loans repaid by their installments
SpecInstallments == Init /\ [][NextInstallments]_vars

(***************************************************************************)
(* POST /api/v1/loans/:loanId/payments, statement by statement, for        *)
(* submissions that arrive while others are queued or running.             *)
(***************************************************************************)
ConcBodies ==
    { Body("c1", JsNumber(Num(100000, 1)), JsNumber(Num(1, 1)), JsNumber(Num(10, 1))),
      Body("c1", JsNumber(Cents(5)), JsNumber(Num(1, 1)), JsNumber(Num(10, 1))) }

ConcAmounts ==
    { JsNumber(Cents(916667)), JsNumber(Cents(10083333)), JsNumber(Zero), JsString }

ConcTypes == {"EMI"}

InFlight == {t \in Slots : frames[t].pc # "idle"}

\* a client submits a payment; the request waits for the event loop
Submit(s, loanId, amount, type) ==
    /\ frames[s].pc = "idle"
    /\ Len(payments) + Cardinality(InFlight) < MaxPayments
    /\ frames' = [frames EXCEPT ![s] =
                     [pc |-> "queued", loanId |-> loanId, amount |-> amount,
                      payment_type |-> type]]
    /\ UNCHANGED <<customers, loans, payments, now, reply>>

\* const loan = getLoanOr404(loanId) and the three checks
PayBegin(s) ==
    LET f == frames[s]
    IN  /\ f.pc = "queued"
        /\ CanRun(s)
        /\ UNCHANGED <<customers, loans, payments, now>>
        /\ IF ~LoanExists(loans, f.loanId)
           THEN /\ reply' = ErrorReply("recordPayment", "LoanNotFound")
                /\ frames' = [frames EXCEPT ![s] = IdleFrame]
           ELSE LET loan == getLoanOr404(loans, f.loanId)
                    check == PaymentCheck(f.amount, f.payment_type, loan)
                IN  IF check # "OK"
                    THEN /\ reply' = ErrorReply("recordPayment", check)
                         /\ frames' = [frames EXCEPT ![s] = IdleFrame]
                    ELSE /\ reply' = reply
                         /\ frames' = [frames EXCEPT ![s] =
                                          [pc |-> "insert", loanId |-> f.loanId,
                                           amount |-> f.amount,
                                           payment_type |-> f.payment_type, loan |-> loan]]

\* const payment_id = uuid(); db.prepare(`INSERT INTO payments ...`).run(...)
PayInsert(s) ==
    LET f == frames[s]
        payment_id == Len(payments) + 1
        row == NewPaymentRow(payment_id, f.loanId, f.amount, f.payment_type, now)
    IN  /\ f.pc = "insert"
        /\ CanRun(s)
        /\ UNCHANGED <<customers, loans, now>>
        /\ IF ~PaymentRowAccepted(row)
           THEN /\ reply' = ErrorReply("recordPayment", "InternalError")
                /\ frames' = [frames EXCEPT ![s] = IdleFrame]
                /\ payments' = payments
           ELSE /\ payments' = Append(payments, row)
                /\ reply' = reply
                /\ frames' = [frames EXCEPT ![s] =
                                 [pc |-> "settle", loanId |-> f.loanId, loan |-> f.loan,
                                  payment_id |-> payment_id]]

\* totalsForLoan(loanId), the conditional UPDATE and res.json
PaySettle(s) ==
    LET f == frames[s]
    IN  /\ f.pc = "settle"
        /\ CanRun(s)
        /\ UNCHANGED <<customers, payments, now>>
        /\ loans' = SettleLoans(loans, payments, f.loanId, f.loan)
        /\ reply' = PaymentReply(f.payment_id, f.loanId,
                                 totalsForLoan(loans, payments, f.loanId))
        /\ frames' = [frames EXCEPT ![s] = IdleFrame]

NextConc ==
    \/ \E b \in ConcBodies : CreateLoan(b)
    \/ \E s \in Slots, loanId \in LoanIds, amount \in ConcAmounts, type \in ConcTypes :
          Submit(s, loanId, amount, type)
    \/ \E s \in Slots : PayBegin(s)
    \/ \E s \in Slots : PayInsert(s)
    \/ \E s \in Slots : PaySettle(s)

\* concurrent payment submissions
SpecConc == Init /\ [][NextConc]_vars

(***************************************************************************)
(* Vocabulary of the properties.                                           *)
(***************************************************************************)
\* a stored two-decimal figure as a whole number of cents
ToCents(x) == x.n * (100 \div x.d)

\* the payments of a loan add up to this many cents
RECURSIVE CentsSum(_)
CentsSum(rows) == IF rows = <<>> THEN 0 ELSE ToCents(Head(rows).amount) + CentsSum(Tail(rows))

PaidCents(loanId) == CentsSum(PaymentsOf(payments, loanId))

IsInteger(x) == x.d = 1

\* the terms of a stored loan satisfy the preconditions of origination
ValidTerms(ln) ==
    /\ IsFinite(ln.principal_amount) /\ ln.principal_amount.n > 0
    /\ IsFinite(ln.loan_period_years) /\ ln.loan_period_years.n > 0
    /\ IsInteger(ln.loan_period_years)
    /\ IsFinite(ln.interest_rate) /\ ln.interest_rate.n >= 0

\* P + P*N*R/100 of a stored loan
SimpleInterestTotal(ln) ==
    Add(ln.principal_amount,
        Div(Mul(Mul(ln.principal_amount, ln.loan_period_years), ln.interest_rate), Num(100, 1)))

Months(ln) == Mul(ln.loan_period_years, Num(12, 1))

SameTerms(a, b) ==
    /\ a.principal_amount = b.principal_amount
    /\ a.interest_rate = b.interest_rate
    /\ a.loan_period_years = b.loan_period_years

\* the loan of the worked example: 100000 at 10% for 1 year
IsExampleLoan(ln) ==
    /\ ln.principal_amount = Num(100000, 1)
    /\ ln.interest_rate = Num(10, 1)
    /\ ln.loan_period_years = Num(1, 1)

(***************************************************************************)
(* C1: every loan starts ACTIVE, its status changes at most once, from     *)
(* ACTIVE to PAID_OFF, and a PAID_OFF loan never becomes ACTIVE again.     *)
(***************************************************************************)
C1_StatusStep ==
    /\ Len(loans') >= Len(loans)
    /\ \A i \in 1 .. Len(loans) :
          /\ loans'[i].status \in {"ACTIVE", "PAID_OFF"}
          /\ loans[i].status = "PAID_OFF" => loans'[i].status = "PAID_OFF"
    /\ \A i \in (Len(loans) + 1) .. Len(loans') : loans'[i].status = "ACTIVE"

C1_StatusOnlyActiveToPaidOff == [][C1_StatusStep]_vars

C1_Witness ==
    /\ reply.op = "getLedger" /\ reply.error = "OK"
    /\ reply.status = "PAID_OFF"
    /\ \E i \in 1 .. Len(loans) : loans[i].status = "ACTIVE"

(***************************************************************************)
(* C2: after every completed operation a loan is PAID_OFF if and only if   *)
(* its recorded payments add up to at least its stored total payable.      *)
(***************************************************************************)
C2_PaidOffIffPaidInFull ==
    \A i \in 1 .. Len(loans) :
        (loans[i].status = "PAID_OFF") <=> (PaidCents(i) >= ToCents(loans[i].total_amount))

(***************************************************************************)
(* C3: a well-formed payment on a PAID_OFF loan is refused with            *)
(* LoanAlreadySettled, and no step adds a payment row to a PAID_OFF loan.  *)
(***************************************************************************)
C3_SettledStep ==
    /\ \A i \in 1 .. Len(loans) :
          loans[i].status = "PAID_OFF" => PaymentsOf(payments', i) = PaymentsOf(payments, i)
    /\ \A i \in 1 .. Len(loans), amount \in PaymentAmounts, type \in {"EMI", "LUMP_SUM"} :
          (loans[i].status = "PAID_OFF" /\ Lt(Zero, Number(amount)))
          => PaymentCheck(amount, type, getLoanOr404(loans, i)) = "LoanAlreadySettled"
    /\ (reply'.op = "recordPayment" /\ reply'.error = "LoanAlreadySettled")
          => payments' = payments /\ loans' = loans

C3_SettledLoanRejectsPayments == [][C3_SettledStep]_vars

C3_Witness ==
    /\ reply.op = "recordPayment"
    /\ reply.error = "LoanAlreadySettled"
    /\ Len(payments) < MaxPayments

(***************************************************************************)
(* C4: the stored totals of a loan created with valid terms.               *)
(* As claimed: total_payable = P + P*N*R/100 exactly and the installment   *)
(* is round2 of the stored total over N*12.                                *)
(***************************************************************************)
C4_StoredTotalsExact ==
    \A i \in 1 .. Len(loans) :
        ValidTerms(loans[i]) =>
            /\ loans[i].total_amount = SimpleInterestTotal(loans[i])
            /\ loans[i].monthly_emi = round2(Div(loans[i].total_amount, Months(loans[i])))

(***************************************************************************)
(* C4 as amended: the stored total is round2(P + P*N*R/100), the           *)
(* installment is round2 of the unrounded total over N*12, loans of equal  *)
(* terms store equal figures, and 100000 at 10% for 1 year stores          *)
(* 110000 and 9166.67.                                                     *)
(***************************************************************************)
C4_StoredTotalsRounded ==
    /\ \A i \in 1 .. Len(loans) :
          ValidTerms(loans[i]) =>
              /\ loans[i].total_amount = round2(SimpleInterestTotal(loans[i]))
              /\ loans[i].monthly_emi =
                     round2(Div(SimpleInterestTotal(loans[i]), Months(loans[i])))
              /\ IsExampleLoan(loans[i]) =>
                     /\ loans[i].total_amount = Num(110000, 1)
                     /\ loans[i].monthly_emi = Cents(916667)
    /\ \A i, j \in 1 .. Len(loans) :
          SameTerms(loans[i], loans[j]) =>
              /\ loans[i].total_amount = loans[j].total_amount
              /\ loans[i].monthly_emi = loans[j].monthly_emi
    /\ (reply.op = "createLoan" /\ reply.error = "OK" /\ IsExampleLoan(loans[reply.loan_id])) =>
          /\ reply.total_interest = Num(10000, 1)
          /\ reply.total_amount_payable = Num(110000, 1)
          /\ reply.monthly_emi = Cents(916667)

C4_Witness ==
    /\ reply.op = "createLoan" /\ reply.error = "OK"
    /\ \E i, j \in 1 .. Len(loans) :
          /\ i # j
          /\ SameTerms(loans[i], loans[j])
          /\ ValidTerms(loans[i])
          /\ loans[i].total_amount # SimpleInterestTotal(loans[i])

(***************************************************************************)
(* C5: the ledger and the payment reply report amount_paid = the sum of    *)
(* the loan's payments, balance = max(0, total - amount_paid), and         *)
(* installments remaining 0 when the balance is 0, else the balance over   *)
(* the installment rounded up; with the 110000 / 9166.67 example.          *)
(***************************************************************************)
BalanceCents(loanId) ==
    LET due == ToCents(loans[loanId].total_amount) - PaidCents(loanId)
    IN  IF due > 0 THEN due ELSE 0

FiguresAgree(loanId, balance, emis) ==
    LET balC == BalanceCents(loanId)
        emiC == ToCents(loans[loanId].monthly_emi)
    IN  /\ balance = Cents(balC)
        /\ balC = 0 => emis = Zero
        /\ (balC > 0 /\ emiC > 0) => emis = Num((balC + emiC - 1) \div emiC, 1)

PaidAmounts(loanId) ==
    LET rows == PaymentsOf(payments, loanId)
    IN  [k \in 1 .. Len(rows) |-> rows[k].amount]

ExampleAgrees(loanId, balance, emis) ==
    IsExampleLoan(loans[loanId]) =>
        /\ PaidAmounts(loanId) = <<Cents(916667)>> =>
              /\ balance = Cents(10083333)
              /\ emis = Num(11, 1)
              /\ loans[loanId].status = "ACTIVE"
        /\ PaidAmounts(loanId) = <<Cents(916667), Cents(10083333)>> =>
              /\ balance = Zero
              /\ emis = Zero
              /\ loans[loanId].status = "PAID_OFF"

C5_ReportedFigures ==
    /\ (reply.op = "getLedger" /\ reply.error = "OK") =>
          /\ reply.amount_paid = Cents(PaidCents(reply.loan_id))
          /\ reply.status = loans[reply.loan_id].status
          /\ FiguresAgree(reply.loan_id, reply.balance_amount, reply.emis_left)
          /\ ExampleAgrees(reply.loan_id, reply.balance_amount, reply.emis_left)
    /\ (reply.op = "recordPayment" /\ reply.error = "OK") =>
          /\ FiguresAgree(reply.loan_id, reply.remaining_balance, reply.emis_left)
          /\ ExampleAgrees(reply.loan_id, reply.remaining_balance, reply.emis_left)

C5_Witness ==
    /\ reply.op = "recordPayment" /\ reply.error = "OK"
    /\ IsExampleLoan(loans[reply.loan_id])
    /\ PaidAmounts(reply.loan_id) = <<Cents(916667), Cents(10083333)>>
    /\ reply.remaining_balance = Zero
    /\ reply.emis_left = Zero

(***************************************************************************)
(* C7: a loan is created only when principal > 0, the term is a positive   *)
(* integer and the rate is >= 0; anything else creates no loan.            *)
(***************************************************************************)
C7_OnlyValidTermsStored == \A i \in 1 .. Len(loans) : ValidTerms(loans[i])

(***************************************************************************)
(* C8: every stored payment has a strictly positive amount, a type in      *)
(* {EMI, LUMP_SUM} and an owning loan that exists.                         *)
(***************************************************************************)
C8_PaymentRowsWellFormed ==
    \A k \in 1 .. Len(payments) :
        /\ Lt(Zero, payments[k].amount)
        /\ payments[k].payment_type \in {"EMI", "LUMP_SUM"}
        /\ LoanExists(loans, payments[k].loan_id)

(***************************************************************************)
(* C9: for a loan created with valid terms, the installments remaining     *)
(* that an operation reports are never infinite or NaN.                    *)
(***************************************************************************)
C9_InstallmentsFinite ==
    /\ (reply.op \in {"getLedger", "recordPayment"} /\ reply.error = "OK"
            /\ ValidTerms(loans[reply.loan_id]))
          => IsFinite(reply.emis_left)
    /\ (reply.op = "getCustomerOverview" /\ reply.error = "OK") =>
          \A k \in 1 .. Len(reply.loans) :
              ValidTerms(loans[reply.loans[k].loan_id]) => IsFinite(reply.loans[k].emis_left)

(***************************************************************************)
(* C10: an operation that fails leaves the stored customers, loans and     *)
(* payments exactly as they were before the call.                          *)
(***************************************************************************)
C10_FailedStep == reply'.error # "OK" => db' = db

C10_FailureChangesNothing == [][C10_FailedStep]_vars

(***************************************************************************)
(* C6: concurrent payment submissions take effect one after another: a     *)
(* handler between its status check and its reply is alone, the loan row   *)
(* it read is still the stored row, the payment it inserted is the last    *)
(* row, and no payment row follows a payment that settled its loan.        *)
(***************************************************************************)
RECURSIVE PrefixCents(_, _)
PrefixCents(rows, j) == IF j = 0 THEN 0 ELSE PrefixCents(rows, j - 1) + ToCents(rows[j].amount)

C6_PaymentsSerial ==
    /\ \A s \in Slots :
          frames[s].pc \in {"insert", "settle"} =>
              /\ \A t \in Slots \ {s} : frames[t].pc \notin {"insert", "settle"}
              /\ frames[s].loan = loans[frames[s].loanId]
              /\ loans[frames[s].loanId].status = "ACTIVE"
              /\ frames[s].pc = "settle" =>
                     payments[Len(payments)].payment_id = frames[s].payment_id
    /\ \A i \in 1 .. Len(loans) :
          LET rows == PaymentsOf(payments, i)
          IN  \A j \in 1 .. (Len(rows) - 1) :
                  PrefixCents(rows, j) < ToCents(loans[i].total_amount)

C6_Witness ==
    \E s, t \in Slots :
        /\ frames[s].pc = "settle"
        /\ frames[t].pc = "queued"
        /\ frames[t].loanId = frames[s].loanId
        /\ ~InvalidAmount(frames[t].amount)
        /\ BalanceCents(frames[s].loanId) = 0

(***************************************************************************)
(* C11: the ledger lists the payments of its loan in ascending timestamp   *)
(* order, payments of equal timestamp in the order they were recorded, so  *)
(* the listed order is the recording order of the loan's payments.         *)
(***************************************************************************)
\* the payment ids of a loan in the order its rows were inserted
RecordedIds(loanId) ==
    LET rows == PaymentsOf(payments, loanId)
    IN  [k \in 1 .. Len(rows) |-> rows[k].payment_id]

C11_LedgerInRecordingOrder ==
    (reply.op = "getLedger" /\ reply.error = "OK") =>
        LET txns == reply.transactions
        IN  /\ [k \in 1 .. Len(txns) |-> txns[k].transaction_id] = RecordedIds(reply.loan_id)
            /\ \A k \in 1 .. Len(txns) :
                  LET row == payments[txns[k].transaction_id]
                  IN  /\ row.loan_id = reply.loan_id
                      /\ txns[k].date = row.payment_date
                      /\ txns[k].amount = row.amount
                      /\ txns[k].type = row.payment_type
            /\ \A k, l \in 1 .. Len(txns) :
                  k < l =>
                      /\ txns[k].date <= txns[l].date
                      /\ txns[k].date = txns[l].date
                            => txns[k].transaction_id < txns[l].transaction_id

\* a ledger of two payments recorded in the same second, read a second later
C11_Witness ==
    /\ reply.op = "getLedger" /\ reply.error = "OK"
    /\ Len(reply.transactions) >= 2
    /\ reply.transactions[1].date = reply.transactions[2].date
    /\ now > reply.transactions[1].date

(***************************************************************************)
(* C12: a ledger or overview read changes no stored row, and as long as    *)
(* no createLoan or recordPayment has run since a read, the same request   *)
(* is answered with the output of that read, however much time passed.     *)
(***************************************************************************)
\* what GET /api/v1/loans/:loanId/ledger answers in the current state
LedgerOutput(loanId) ==
    IF LoanExists(loans, loanId)
    THEN LedgerReply(loans, payments, loanId)
    ELSE ErrorReply("getLedger", "LoanNotFound")

\* what GET /api/v1/customers/:customerId/overview answers in the current state
OverviewOutput(customerId) ==
    IF Len(LoansOfCustomer(loans, customerId)) = 0
    THEN ErrorReply("getCustomerOverview", "NoLoansForCustomer")
    ELSE OverviewReply(loans, payments, customerId)

\* the last reply is a read's: asking again now gives that reply
C12_SameOutputAgain ==
    /\ reply.op = "getLedger" =>
          IF reply.error = "OK"
          THEN LedgerOutput(reply.loan_id) = reply
          ELSE \E loanId \in LoanIds : LedgerOutput(loanId) = reply
    /\ reply.op = "getCustomerOverview" =>
          IF reply.error = "OK"
          THEN OverviewOutput(reply.customer_id) = reply
          ELSE \E customerId \in Customers : OverviewOutput(customerId) = reply

C12_ReadStep == reply'.op \in {"getLedger", "getCustomerOverview"} => db' = db

C12_ReadsPureAndRepeatable == []C12_SameOutputAgain /\ [][C12_ReadStep]_vars

\* an overview read of a store that holds a payment, a second after the payment
C12_Witness ==
    /\ reply.op = "getCustomerOverview" /\ reply.error = "OK"
    /\ Len(payments) > 0
    /\ now > payments[Len(payments)].payment_date

(***************************************************************************)
(* C13: the overview of a customer is NoLoansForCustomer exactly when no   *)
(* stored loan is the customer's; otherwise it holds one summary for each  *)
(* of the customer's loans and for no other loan, total_loans is their     *)
(* number, and the summaries are in order of creation time, latest first.  *)
(***************************************************************************)
\* the rows of the loans table that belong to a customer
LoanRowsOf(customerId) == {i \in 1 .. Len(loans) : loans[i].customer_id = customerId}

C13_OverviewOf(customerId) ==
    LET out == OverviewOutput(customerId)
        mine == LoanRowsOf(customerId)
    IN  /\ (out.error = "NoLoansForCustomer") <=> (mine = {})
        /\ out.error \in {"OK", "NoLoansForCustomer"}
        /\ out.error = "OK" =>
              /\ out.customer_id = customerId
              /\ out.total_loans = Cardinality(mine)
              /\ Len(out.loans) = Cardinality(mine)
              /\ {out.loans[k].loan_id : k \in 1 .. Len(out.loans)}
                    = {loans[i].loan_id : i \in mine}
              /\ \A k \in 1 .. Len(out.loans) :
                    out.loans[k].created_at = loans[out.loans[k].loan_id].created_at
              /\ \A k, l \in 1 .. Len(out.loans) :
                    k < l => out.loans[k].created_at >= out.loans[l].created_at

C13_OverviewListsOwnLoans ==
    /\ \A customerId \in Customers : C13_OverviewOf(customerId)
    /\ reply.op = "getCustomerOverview" =>
          \E customerId \in Customers : reply = OverviewOutput(customerId)

\* an overview of two loans created in different seconds
C13_Witness ==
    /\ reply.op = "getCustomerOverview" /\ reply.error = "OK"
    /\ Len(reply.loans) = 2
    /\ reply.loans[1].created_at > reply.loans[2].created_at
    /\ reply.loans[1].loan_id = 2

(***************************************************************************)
(* C14: the payment type has no accounting effect.  In every reachable     *)
(* store, recording an amount on a loan under either type gives the same   *)
(* loans, the same payment rows up to their type and the same reply as     *)
(* recording it under EMI in the store whose payments are all tagged EMI,  *)
(* and both stores report the same figures: hence two runs that record     *)
(* the same amounts and differ only in the tags agree after every step on  *)
(* amount_paid, balance, installments remaining and status.                *)
(***************************************************************************)
\* what the payment handler makes of a store: the tables and the reply
PaymentEffect(lns, pays, loanId, amount, type, t) ==
    IF ~LoanExists(lns, loanId)
    THEN [loans |-> lns, payments |-> pays,
          reply |-> ErrorReply("recordPayment", "LoanNotFound")]
    ELSE LET loan == getLoanOr404(lns, loanId)
             check == PaymentCheck(amount, type, loan)
             row == NewPaymentRow(Len(pays) + 1, loanId, amount, type, t)
             added == Append(pays, row)
         IN  IF check # "OK"
             THEN [loans |-> lns, payments |-> pays,
                   reply |-> ErrorReply("recordPayment", check)]
             ELSE IF ~PaymentRowAccepted(row)
             THEN [loans |-> lns, payments |-> pays,
                   reply |-> ErrorReply("recordPayment", "InternalError")]
             ELSE [loans |-> SettleLoans(lns, added, loanId, loan), payments |-> added,
                   reply |-> PaymentReply(Len(pays) + 1, loanId,
                                          totalsForLoan(lns, added, loanId))]

\* the payment rows with every type tag replaced by EMI
AllEmi(pays) == [k \in 1 .. Len(pays) |-> [pays[k] EXCEPT !.payment_type = "EMI"]]

EraseTypes(effect) == [effect EXCEPT !.payments = AllEmi(effect.payments)]

\* amount_paid, balance, installments remaining and status as the ledger reports them
Figures(lns, pays, loanId) ==
    LET out == LedgerReply(lns, pays, loanId)
    IN  <<out.amount_paid, out.balance_amount, out.emis_left, out.status>>

TypeAmounts == {p.amount : p \in TypePayments}

C14_TagsIgnored ==
    \A loanId \in 1 .. Len(loans) :
        /\ Figures(loans, payments, loanId) = Figures(loans, AllEmi(payments), loanId)
        /\ \A amount \in TypeAmounts, type \in {"EMI", "LUMP_SUM"} :
              EraseTypes(PaymentEffect(loans, payments, loanId, amount, type, now))
                 = PaymentEffect(loans, AllEmi(payments), loanId, amount, "EMI", now)

\* a step that ends in a payment reply is a step of the payment handler
C14_PaymentStep ==
    reply'.op = "recordPayment" =>
        \E loanId \in LoanIds, p \in TypePayments :
            [loans |-> loans', payments |-> payments', reply |-> reply']
               = PaymentEffect(loans, payments, loanId, p.amount, p.payment_type, now)

C14_TypeHasNoAccountingEffect == []C14_TagsIgnored /\ [][C14_PaymentStep]_vars

\* the example loan settled by an installment tagged LUMP_SUM and a closing payment tagged EMI
C14_Witness ==
    /\ Len(payments) = 2
    /\ payments[1].loan_id = payments[2].loan_id
    /\ payments[1].payment_type = "LUMP_SUM" /\ payments[1].amount = Cents(916667)
    /\ payments[2].payment_type = "EMI" /\ payments[2].amount = Cents(10083333)
    /\ loans[payments[1].loan_id].status = "PAID_OFF"
    /\ reply.op = "recordPayment" /\ reply.error = "OK"

(***************************************************************************)
(* C15: no step changes a stored loan's identifier, customer, principal,   *)
(* rate, term, total, installment or creation time; a loan's status        *)
(* changes only in a successful recordPayment step that appended a payment *)
(* of that loan; and no step removes or changes a stored payment row.      *)
(***************************************************************************)
C15_FrameStep ==
    /\ Len(loans') >= Len(loans)
    /\ \A i \in 1 .. Len(loans) :
          /\ [loans'[i] EXCEPT !.status = loans[i].status] = loans[i]
          /\ loans'[i].status # loans[i].status =>
                /\ reply'.op = "recordPayment" /\ reply'.error = "OK"
                /\ Len(payments') = Len(payments) + 1
                /\ payments'[Len(payments')].loan_id = i
    /\ Len(payments') >= Len(payments)
    /\ SubSeq(payments', 1, Len(payments)) = payments

C15_TermsFixedPaymentsAppendOnly == [][C15_FrameStep]_vars

\* a payment has just settled one loan while another loan, with a payment, stays ACTIVE
C15_Witness ==
    /\ reply.op = "recordPayment" /\ reply.error = "OK"
    /\ loans[reply.loan_id].status = "PAID_OFF"
    /\ \E i \in 1 .. Len(loans) :
          /\ loans[i].status = "ACTIVE"
          /\ PaymentsOf(payments, i) # <<>>

(***************************************************************************)
(* C16: every stored loan belongs to a stored customer, no two customer    *)
(* records carry the same identifier however many loans the customer has,  *)
(* and no step removes or changes a customer record.                       *)
(***************************************************************************)
C16_CustomersConsistent ==
    /\ \A i \in 1 .. Len(loans) :
          \E c \in 1 .. Len(customers) : customers[c].customer_id = loans[i].customer_id
    /\ \A c, d \in 1 .. Len(customers) :
          customers[c].customer_id = customers[d].customer_id => c = d

C16_CustomerStep ==
    /\ Len(customers') >= Len(customers)
    /\ SubSeq(customers', 1, Len(customers)) = customers

C16_OneCustomerRecordKept == []C16_CustomersConsistent /\ [][C16_CustomerStep]_vars

\* two loans of one customer, created in different seconds, and one record for the customer
C16_Witness ==
    /\ Len(loans) = 2
    /\ loans[1].customer_id = loans[2].customer_id
    /\ loans[1].created_at < loans[2].created_at
    /\ Len(customers) = 1
    /\ reply.op = "createLoan" /\ reply.error = "OK"

(***************************************************************************)
(* C17: for every stored loan, the summary of the loan in its customer's   *)
(* overview and the loan's ledger report the same amount paid, the same    *)
(* installments remaining, the same status, principal, total amount and    *)
(* installment amount.                                                     *)
(***************************************************************************)
SummaryAgrees(summary, ledger) ==
    /\ summary.loan_id = ledger.loan_id
    /\ summary.amount_paid = ledger.amount_paid
    /\ summary.emis_left = ledger.emis_left
    /\ summary.status = ledger.status
    /\ summary.principal = ledger.principal
    /\ summary.total_amount = ledger.total_amount
    /\ summary.emi_amount = ledger.monthly_emi

C17_OverviewAgreesWithLedger ==
    /\ \A i \in 1 .. Len(loans) :
          SummaryAgrees(LoanSummary(loans[i], payments), LedgerReply(loans, payments, i))
    /\ (reply.op = "getCustomerOverview" /\ reply.error = "OK") =>
          \A k \in 1 .. Len(reply.loans) :
              SummaryAgrees(reply.loans[k], LedgerOutput(reply.loans[k].loan_id))
    /\ (reply.op = "getLedger" /\ reply.error = "OK") =>
          SummaryAgrees(LoanSummary(loans[reply.loan_id], payments), reply)

\* an overview with a part-paid loan that has installments left and a settled loan
C17_Witness ==
    /\ reply.op = "getCustomerOverview" /\ reply.error = "OK"
    /\ \E k \in 1 .. Len(reply.loans) :
          /\ reply.loans[k].status = "ACTIVE"
          /\ Lt(Zero, reply.loans[k].amount_paid)
          /\ IsFinite(reply.loans[k].emis_left) /\ Lt(Zero, reply.loans[k].emis_left)
    /\ \E k \in 1 .. Len(reply.loans) : reply.loans[k].status = "PAID_OFF"

(***************************************************************************)
(* C18: for a loan created with valid terms, the installments remaining    *)
(* that are reported while the loan has no payment equal term_years * 12,  *)
(* and no reply reports more than term_years * 12 installments remaining.  *)
(***************************************************************************)
C18_WithinTerm(loanId, emis_left) ==
    ValidTerms(loans[loanId]) =>
        /\ Le(emis_left, Months(loans[loanId]))
        /\ PaymentsOf(payments, loanId) = <<>> => emis_left = Months(loans[loanId])

C18_InstallmentsWithinTerm ==
    /\ (reply.op \in {"getLedger", "recordPayment"} /\ reply.error = "OK")
          => C18_WithinTerm(reply.loan_id, reply.emis_left)
    /\ (reply.op = "getCustomerOverview" /\ reply.error = "OK") =>
          \A k \in 1 .. Len(reply.loans) :
              C18_WithinTerm(reply.loans[k].loan_id, reply.loans[k].emis_left)

(***************************************************************************)
(* C19: on an ACTIVE loan with installment > 0 that reports k installments *)
(* remaining, a payment of exactly the installment settles the loan when   *)
(* k = 1 and otherwise leaves it ACTIVE with k - 1 installments reported,  *)
(* so that k such payments, and no fewer, make the loan PAID_OFF.          *)
(***************************************************************************)
\* the step records a payment of exactly the installment on the ACTIVE loan i
InstallmentPaid(i) ==
    /\ loans[i].status = "ACTIVE"
    /\ Lt(Zero, loans[i].monthly_emi)
    /\ reply'.op = "recordPayment" /\ reply'.error = "OK" /\ reply'.loan_id = i
    /\ Len(payments') = Len(payments) + 1
    /\ payments'[Len(payments')].amount = loans[i].monthly_emi

C19_InstallmentStep ==
    \A i \in 1 .. Len(loans) :
        InstallmentPaid(i) =>
            LET k == totalsForLoan(loans, payments, i).emisLeft
            IN  IF k = Num(1, 1)
                THEN loans'[i].status = "PAID_OFF" /\ reply'.emis_left = Zero
                ELSE /\ loans'[i].status = "ACTIVE"
                     /\ reply'.emis_left = Sub(k, Num(1, 1))

C19_InstallmentsCountDown == [][C19_InstallmentStep]_vars

====
